---- MODULE Spec2Model ----
(***************************************************************************)
(* A model of loan_enquiry_form.py: the entity extractor                   *)
(* (extract_loan_entities), and the two handlers that write shared files   *)
(* (upload_audio, submit_application).                                     *)
(*                                                                         *)
(* Text is modelled by strings; a character is a string of length one      *)
(* (SubSeq, Len and \o act on strings as on sequences).  The regular       *)
(* expressions of the source are modelled by "match at position i"         *)
(* operators, and re.search by the leftmost position that matches.         *)
(***************************************************************************)
EXTENDS Integers, Sequences, FiniteSets

VARIABLES
    text,        \* extract_loan_entities: the argument
    text_lower,  \* extract_loan_entities: text.lower()
    entities,    \* extract_loan_entities: the list being built
    pc,          \* extract_loan_entities: the section about to run
    csv,         \* uploads/applications.csv: [exists, rows]
    db,          \* uploads/applications.db: rows of table applications
    spc,         \* submit_application: each request's position
    sresp,       \* submit_application: each request's response
    clock,       \* datetime.now(), in whole seconds
    files,       \* uploads/: filename -> the request whose audio it holds
    upc,         \* upload_audio: each request's position
    ufile,       \* upload_audio: each request's generated filename
    uresp        \* upload_audio: each request's response

vars == <<text, text_lower, entities, pc, csv, db, spc, sresp,
          clock, files, upc, ufile, uresp>>
extractVars == <<text, text_lower, entities, pc>>
submitVars == <<csv, db, spc, sresp>>
uploadVars == <<clock, files, upc, ufile, uresp>>

-----------------------------------------------------------------------------
(* Bounds *)

\* the number of phrases joined into one transcript
MaxPhrases == 2
\* the numerals N of the amount-only transcripts are 1..MaxN
MaxN == 60
\* concurrent submit_application requests
MaxSubmits == 2
\* concurrent upload_audio requests
MaxUploads == 2
\* the clock runs from 0 to MaxClock seconds
MaxClock == 2

-----------------------------------------------------------------------------
(* Characters and strings *)

Rupee == "₹"
DigitChars == {"0", "1", "2", "3", "4", "5", "6", "7", "8", "9"}
SpaceChars == {" ", "\t", "\n", "\r", "\f"}
LowerAlphabet == "abcdefghijklmnopqrstuvwxyz"
UpperAlphabet == "ABCDEFGHIJKLMNOPQRSTUVWXYZ"
LowerChars == {SubSeq(LowerAlphabet, k, k) : k \in 1..26}
UpperChars == {SubSeq(UpperAlphabet, k, k) : k \in 1..26}

\* the element of a one-element set.  The({F(x) : x \in {e}}) is F(e), with e
\* evaluated once
The(S) == CHOOSE x \in S : TRUE

Min(S) == CHOOSE m \in S : \A n \in S : m <= n

Char(s, i) == SubSeq(s, i, i)

IsDigit(c) == c \in DigitChars
IsSpace(c) == c \in SpaceChars
IsAlpha(c) == c \in LowerChars \/ c \in UpperChars

\* str.lower() on one character
LowerChar(c) ==
    IF c \in UpperChars
    THEN Char(LowerAlphabet, CHOOSE k \in 1..26 : c = Char(UpperAlphabet, k))
    ELSE c

\* str.upper() on one character
UpperChar(c) ==
    IF c \in LowerChars
    THEN Char(UpperAlphabet, CHOOSE k \in 1..26 : c = Char(LowerAlphabet, k))
    ELSE c

RECURSIVE ConcatRange(_, _, _)
\* cs[lo] \o ... \o cs[hi], by halves
ConcatRange(cs, lo, hi) ==
    IF lo > hi THEN ""
    ELSE IF lo = hi THEN cs[lo]
    ELSE The({ConcatRange(cs, lo, mid) \o ConcatRange(cs, mid + 1, hi) :
              mid \in {(lo + hi) \div 2}})

\* ''.join(cs)
Concat(cs) == The({ConcatRange(f, 1, Len(f)) : f \in {cs}})

\* str.lower()
Lower(s) == Concat([i \in 1..Len(s) |-> LowerChar(Char(s, i))])

\* str.capitalize(): the first character upper-cased, the rest lower-cased
Capitalize(s) ==
    Concat([i \in 1..Len(s) |-> IF i = 1 THEN UpperChar(Char(s, i)) ELSE LowerChar(Char(s, i))])

\* str.replace(old, new) for a one-character old
Replace(s, old, new) ==
    Concat([i \in 1..Len(s) |-> IF Char(s, i) = old THEN new ELSE Char(s, i)])

\* str.title(): a letter is upper-cased after a non-letter, lower-cased after a letter
Title(s) ==
    Concat([i \in 1..Len(s) |-> IF i > 1 /\ IsAlpha(Char(s, i - 1))
                                THEN LowerChar(Char(s, i))
                                ELSE UpperChar(Char(s, i))])

\* sep.join(parts)
JoinWith(sep, parts) ==
    Concat([i \in 1..Len(parts) |-> IF i = 1 THEN parts[i] ELSE sep \o parts[i]])

\* w occurs in t at position i
At(t, i, w) ==
    /\ i >= 1
    /\ i + Len(w) - 1 <= Len(t)
    /\ SubSeq(t, i, i + Len(w) - 1) = w

\* Python's  w in t
Contains(t, w) == \E i \in 1..(Len(t) - Len(w) + 1) : SubSeq(t, i, i + Len(w) - 1) = w

\* any(keyword in t for keyword in keywords)
AnyKeyword(t, keywords) == \E k \in 1..Len(keywords) : Contains(t, keywords[k])

RECURSIVE DigitsEnd(_, _)
\* \d* from position i: the position after the longest run of digits
DigitsEnd(t, i) == IF i <= Len(t) /\ IsDigit(Char(t, i)) THEN DigitsEnd(t, i + 1) ELSE i

RECURSIVE SpaceEnd(_, _)
\* \s* from position i
SpaceEnd(t, i) == IF i <= Len(t) /\ IsSpace(Char(t, i)) THEN SpaceEnd(t, i + 1) ELSE i

RECURSIVE GroupsEnd(_, _)
\* (?:,\d{3})* from position i
GroupsEnd(t, i) ==
    IF /\ i + 3 <= Len(t)
       /\ Char(t, i) = ","
       /\ IsDigit(Char(t, i + 1)) /\ IsDigit(Char(t, i + 2)) /\ IsDigit(Char(t, i + 3))
    THEN GroupsEnd(t, i + 4)
    ELSE i

\* \d{1,3} from position i
Digits3End(t, i) == The({IF k > i + 3 THEN i + 3 ELSE k : k \in {DigitsEnd(t, i)}})

\* \d+(?:\.\d+)? from position i (i itself when no digit is there)
DecimalEnd(t, i) ==
    The({IF k > i /\ At(t, k, ".") /\ k + 1 <= Len(t) /\ IsDigit(Char(t, k + 1))
         THEN DigitsEnd(t, k + 1)
         ELSE k : k \in {DigitsEnd(t, i)}})

\* the result of a match: the captured groups
Miss == [ok |-> FALSE, g1 |-> "", g2 |-> ""]
Hit(a, b) == [ok |-> TRUE, g1 |-> a, g2 |-> b]

\* the leftmost of the positions
Leftmost(hits) == IF hits = {} THEN 0 ELSE Min(hits)

-----------------------------------------------------------------------------
(* The entity record *)

FieldKinds == {"loan_type", "loan_purpose", "loan_amount", "employment_income",
               "repayment_timeline", "bank_relationship"}

Entity(f, v, c) == [field |-> f, value |-> v, confidence |-> c]

\* first match wins: the first candidate of the table one of whose keywords is in t
\* (0 when there is none)
MatchFirst(t, table) ==
    The({IF hits = {} THEN 0 ELSE Min(hits) :
         hits \in {{k \in 1..Len(table) : AnyKeyword(t, table[k].keywords)}}})

-----------------------------------------------------------------------------
(* 1. loan type *)

loan_types == <<
    [name |-> "personal", keywords |-> <<"personal loan", "personal", "individual loan">>],
    [name |-> "home", keywords |-> <<"home loan", "housing loan", "mortgage", "house loan",
                                     "property loan", "purchase a home", "purchase a house">>],
    [name |-> "auto", keywords |-> <<"auto loan", "car loan", "vehicle loan", "automobile loan">>],
    [name |-> "business", keywords |-> <<"business loan", "commercial loan", "enterprise loan",
                                         "business expansion", "expand my business", "new business">>],
    [name |-> "education", keywords |-> <<"education loan", "student loan", "study loan">>] >>

LoanTypeEntity(k) == Entity("loan_type", Capitalize(loan_types[k].name) \o " Loan", "high")

\* the loop without its two breaks: one entity for every type with a keyword in t
LoanTypeEntitiesNoBreak(t) ==
    LET F[k \in 0..Len(loan_types)] ==
            IF k = 0 THEN <<>>
            ELSE IF AnyKeyword(t, loan_types[k].keywords)
                 THEN Append(F[k - 1], LoanTypeEntity(k))
                 ELSE F[k - 1]
    IN F[Len(loan_types)]

\* the entities the loan-type section appends
LoanTypeEntities(t) ==
    The({IF k = 0 THEN <<>> ELSE <<LoanTypeEntity(k)>> : k \in {MatchFirst(t, loan_types)}})

-----------------------------------------------------------------------------
(* 2. loan purpose *)

purpose_keywords == <<
    [name |-> "home_purchase", keywords |-> <<"buy home", "purchase home", "buying house",
                                              "home purchase", "buy a house", "purchase a home",
                                              "purchase a house">>],
    [name |-> "renovation", keywords |-> <<"renovation", "remodel", "home improvement">>],
    [name |-> "debt_consolidation", keywords |-> <<"debt consolidation", "consolidate debt",
                                                   "pay off debts">>],
    [name |-> "business_expansion", keywords |-> <<"business expansion", "expand business",
                                                   "grow business">>],
    [name |-> "education", keywords |-> <<"education", "study", "tuition", "college",
                                          "tuition fees", "college fees">>],
    [name |-> "vehicle_purchase", keywords |-> <<"buy car", "purchase vehicle", "buying car">>],
    [name |-> "medical", keywords |-> <<"medical", "healthcare", "hospital">>],
    [name |-> "wedding", keywords |-> <<"wedding", "marriage">>] >>

\* the entities the loan-purpose section appends
LoanPurposeEntities(t) ==
    The({IF k = 0 THEN <<>>
         ELSE <<Entity("loan_purpose", Title(Replace(purpose_keywords[k].name, "_", " ")), "high")>> :
         k \in {MatchFirst(t, purpose_keywords)}})

-----------------------------------------------------------------------------
(* The amount/income conversion *)

\* None, and a string that is false in a condition, are the empty string
None == ""
Truthy(s) == s # None

RECURSIVE DigitsVal(_, _)
\* the number the first n characters of a string of digits denote
DigitsVal(s, n) ==
    IF n = 0 THEN 0
    ELSE 10 * DigitsVal(s, n - 1) + (CHOOSE d \in 0..9 : Char("0123456789", d + 1) = Char(s, n))

RECURSIVE Pow10(_)
Pow10(n) == IF n = 0 THEN 1 ELSE 10 * Pow10(n - 1)

\* float(s) for s with its point at position p (Len(s) + 1 when it has none): the
\* exact decimal num / den
FloatAt(s, p) ==
    The({[ok |-> TRUE, num |-> DigitsVal(s, p - 1) * Pow10(Len(fp)) + DigitsVal(fp, Len(fp)),
          den |-> Pow10(Len(fp))] : fp \in {SubSeq(s, p + 1, Len(s))}})

\* float(s): ValueError (ok = FALSE) unless s is digits with at most one point and
\* at least one digit
ParseFloat(s) ==
    The({IF /\ \A i \in 1..Len(s) : IsDigit(Char(s, i)) \/ i \in points
            /\ Cardinality(points) <= 1
            /\ Len(s) > Cardinality(points)
         THEN FloatAt(s, IF points = {} THEN Len(s) + 1 ELSE Min(points))
         ELSE [ok |-> FALSE, num |-> 0, den |-> 1] :
         points \in {{i \in 1..Len(s) : Char(s, i) = "."}}})

\* a conversion that leaves the grouping separators in
KeepCommas(s) == s

\* match.group(1).replace(',', '')
StripCommas(s) == Replace(s, ",", "")

conversion_types == <<"direct", "direct", "thousand", "lakh", "crore">>

\* a scaling that takes a lakh for ten thousand
ScaleFactorShortLakh(ctype) ==
    CASE ctype = "direct" -> 1
      [] ctype = "thousand" -> 1000
      [] ctype = "lakh" -> 10000
      [] ctype = "crore" -> 10000000

\* the factor of each conversion type
ScaleFactor(ctype) ==
    CASE ctype = "direct" -> 1
      [] ctype = "thousand" -> 1000
      [] ctype = "lakh" -> 100000
      [] ctype = "crore" -> 10000000

\* float(amount_str) * factor, on the captured group
Convert(g1, ctype) ==
    The({[ok |-> f.ok, num |-> f.num * ScaleFactor(ctype), den |-> f.den] :
         f \in {The({ParseFloat(s) : s \in {StripCommas(g1)}})}})

\* the integer nearest num / den, a tie going to the even one (format .0f)
RoundHalfEven(num, den) ==
    The({IF 2 * (num % den) > den \/ (2 * (num % den) = den /\ q % 2 = 1) THEN q + 1 ELSE q :
         q \in {num \div den}})

RECURSIVE IntStr(_)
IntStr(n) ==
    IF n < 10 THEN Char("0123456789", n + 1)
    ELSE IntStr(n \div 10) \o Char("0123456789", (n % 10) + 1)

Pad3(n) == IF n < 10 THEN "00" \o IntStr(n) ELSE IF n < 100 THEN "0" \o IntStr(n) ELSE IntStr(n)

RECURSIVE GroupThousands(_)
\* format(n, ','): groups of three digits from the right
GroupThousands(n) ==
    IF n < 1000 THEN IntStr(n)
    ELSE GroupThousands(n \div 1000) \o "," \o Pad3(n % 1000)

\* f"₹{amount:,.0f}"
FormatRupees(v) == Rupee \o The({GroupThousands(n) : n \in {RoundHalfEven(v.num, v.den)}})

\* the first pattern, in the order of the list, that matches; 0 when none does
FirstPattern(matches) == Leftmost({k \in 1..Len(matches) : matches[k].ok})

-----------------------------------------------------------------------------
(* 3. loan amount *)

CurrencyWords == {"rupee", "rs", "inr"}
ThousandWords == {"k", "thousand"}
LakhWords == {"lakh"}
CroreWords == {"crore"}

\* r'₹\s*(\d{1,3}(?:,\d{3})*)' at position i
SymbolAmountAt(t, i) ==
    LET j == SpaceEnd(t, i + 1)
        k == Digits3End(t, j)
    IN IF At(t, i, Rupee) /\ k > j
       THEN Hit(SubSeq(t, j, GroupsEnd(t, k) - 1), "")
       ELSE Miss

\* r'(\d+(?:,\d{3})*)\s*(?:rupees?|rs\.?|inr)' at position i
WordAmountAt(t, i) ==
    LET k == DigitsEnd(t, i)
        e == GroupsEnd(t, k)
    IN IF k > i /\ \E w \in CurrencyWords : At(t, SpaceEnd(t, e), w)
       THEN Hit(SubSeq(t, i, e - 1), "")
       ELSE Miss

\* r'(\d+(?:\.\d+)?)\s*(?:<unit>)' at position i, for the unit words given
ScaledAmountAt(t, i, units) ==
    LET e == DecimalEnd(t, i)
    IN IF e > i /\ \E w \in units : At(t, SpaceEnd(t, e), w)
       THEN Hit(SubSeq(t, i, e - 1), "")
       ELSE Miss

\* amount_patterns[k], matched at position i
AmountPatternAt(k, t, i) ==
    CASE k = 1 -> SymbolAmountAt(t, i)
      [] k = 2 -> WordAmountAt(t, i)
      [] k = 3 -> ScaledAmountAt(t, i, ThousandWords)
      [] k = 4 -> ScaledAmountAt(t, i, LakhWords)
      [] k = 5 -> ScaledAmountAt(t, i, CroreWords)

\* re.search(amount_patterns[k], t): the leftmost match
SearchAmount(k, t) ==
    The({IF i = 0 THEN Miss ELSE AmountPatternAt(k, t, i) :
         i \in {Leftmost({i \in 1..Len(t) : AmountPatternAt(k, t, i).ok})}})

\* what the section does with the first match: the entity, or float() raising
AmountOutcome(m, ctype) ==
    The({IF v.ok
         THEN [raised |-> FALSE, out |-> <<Entity("loan_amount", FormatRupees(v), "high")>>]
         ELSE [raised |-> TRUE, out |-> <<>>] : v \in {Convert(m.g1, ctype)}})

\* the loan-amount section: what it appends, or that the conversion raised
LoanAmountResult(t) ==
    The({The({IF k = 0 THEN [raised |-> FALSE, out |-> <<>>]
              ELSE AmountOutcome(matches[k], conversion_types[k]) :
              k \in {FirstPattern(matches)}}) :
         matches \in {[k \in 1..5 |-> SearchAmount(k, t)]}})

-----------------------------------------------------------------------------
(* 4. employment and income *)

employed_keywords == <<"employed", "working", "job", "work as", "working as", "employed as",
                       "full time", "full-time", "part time", "part-time", "am a employee",
                       "working professional">>
self_employed_keywords == <<"self-employed", "self employed", "business owner", "own business",
                            "freelancer", "entrepreneur">>
unemployed_keywords == <<"unemployed", "not employed", "not working", "no job", "jobless",
                         "am not employee">>

\* the keyword sets tried employed first
EmploymentStatusEmployedFirst(t) ==
    IF AnyKeyword(t, employed_keywords) THEN "Employed"
    ELSE IF AnyKeyword(t, self_employed_keywords) THEN "Self-Employed"
    ELSE IF AnyKeyword(t, unemployed_keywords) THEN "Unemployed"
    ELSE None

\* the if / elif / elif over the three keyword sets
EmploymentStatus(t) ==
    IF AnyKeyword(t, self_employed_keywords) THEN "Self-Employed"
    ELSE IF AnyKeyword(t, unemployed_keywords) THEN "Unemployed"
    ELSE IF AnyKeyword(t, employed_keywords) THEN "Employed"
    ELSE None

IncomeWords == {"salary", "income", "earn", "earning", "make"}
FillerWords == {"of", "is", "around", "about"}

\* r'(?:salary|income|earn(?:ing)?|make)\s*(?:of|is|around|about)?\s*' at position i:
\* the positions at which the number of the pattern may start
IncomePrefixEnds(t, i) ==
    The({afterWord \cup
         UNION {{SpaceEnd(t, a + Len(f)) : f \in {f \in FillerWords : At(t, a, f)}} :
                a \in afterWord} :
         afterWord \in {{SpaceEnd(t, i + Len(w)) : w \in {w \in IncomeWords : At(t, i, w)}}}})

\* income_patterns[k], matched at position i
IncomePatternAt(k, t, i) ==
    The({IF c = 0 THEN Miss ELSE AmountPatternAt(k, t, c) :
         c \in {Leftmost({c \in IncomePrefixEnds(t, i) : AmountPatternAt(k, t, c).ok})}})

\* re.search(income_patterns[k], t)
SearchIncome(k, t) ==
    The({IF i = 0 THEN Miss ELSE IncomePatternAt(k, t, i) :
         i \in {Leftmost({i \in 1..Len(t) : IncomePatternAt(k, t, i).ok})}})

\* what the loop does with the first match: income_info, or float() raising
IncomeOutcome(m, ctype) ==
    The({IF v.ok
         THEN [raised |-> FALSE, info |-> FormatRupees(v)]
         ELSE [raised |-> TRUE, info |-> None] : v \in {Convert(m.g1, ctype)}})

\* the income loop: income_info (None when no pattern matches), or that it raised
IncomeResult(t) ==
    The({The({IF k = 0 THEN [raised |-> FALSE, info |-> None]
              ELSE IncomeOutcome(matches[k], conversion_types[k]) :
              k \in {FirstPattern(matches)}}) :
         matches \in {[k \in 1..5 |-> SearchIncome(k, t)]}})

\* employment_text_parts
EmploymentParts(status, income) ==
    (IF Truthy(status) THEN <<status>> ELSE <<>>) \o (IF Truthy(income) THEN <<income>> ELSE <<>>)

\* ' | '.join(employment_text_parts) if employment_text_parts else 'Employed'
EmploymentText(parts) == IF parts # <<>> THEN JoinWith(" | ", parts) ELSE "Employed"

\* a combination that always emits an entity, "Employed" when nothing was found
EmploymentEntitiesAlways(status, income) ==
    <<Entity("employment_income", EmploymentText(EmploymentParts(status, income)), "medium")>>

\* the combination of employment_status and income_info into one entity
EmploymentEntities(status, income) ==
    IF Truthy(status) \/ Truthy(income)
    THEN <<Entity("employment_income", EmploymentText(EmploymentParts(status, income)), "medium")>>
    ELSE <<>>

\* the employment section: what it appends, or that the conversion raised
EmploymentResult(t) ==
    The({IF inc.raised THEN [raised |-> TRUE, out |-> <<>>]
         ELSE [raised |-> FALSE, out |-> EmploymentEntities(EmploymentStatus(t), inc.info)] :
         inc \in {IncomeResult(t)}})

-----------------------------------------------------------------------------
(* 5. repayment timeline *)

YearWords == {"year", "yr"}
MonthWords == {"month", "mo"}
timeline_types == <<"years", "months", "years_range">>

\* r'(\d+)\s*(?:<unit>)' at position i
PlainTimelineAt(t, i, units) ==
    LET k == DigitsEnd(t, i)
    IN IF k > i /\ \E w \in units : At(t, SpaceEnd(t, k), w)
       THEN Hit(SubSeq(t, i, k - 1), "")
       ELSE Miss

\* r'(\d+)\s*to\s*(\d+)\s*(?:years?|yrs?)' at position i
RangeTimelineAt(t, i) ==
    LET k == DigitsEnd(t, i)
        a == SpaceEnd(t, k)
        b == SpaceEnd(t, a + 2)
        m == DigitsEnd(t, b)
    IN IF k > i /\ At(t, a, "to") /\ m > b /\ \E w \in YearWords : At(t, SpaceEnd(t, m), w)
       THEN Hit(SubSeq(t, i, k - 1), SubSeq(t, b, m - 1))
       ELSE Miss

\* timeline_patterns[k], matched at position i
TimelinePatternAt(k, t, i) ==
    CASE k = 1 -> PlainTimelineAt(t, i, YearWords)
      [] k = 2 -> PlainTimelineAt(t, i, MonthWords)
      [] k = 3 -> RangeTimelineAt(t, i)

\* re.search(timeline_patterns[k], t)
SearchTimeline(k, t) ==
    The({IF i = 0 THEN Miss ELSE TimelinePatternAt(k, t, i) :
         i \in {Leftmost({i \in 1..Len(t) : TimelinePatternAt(k, t, i).ok})}})

\* the value rendered from a match of the range pattern
RangeValue(m) == m.g1 \o "-" \o m.g2 \o " years"

\* timeline_value
TimelineValue(m, type) == IF type = "years_range" THEN RangeValue(m) ELSE m.g1 \o " " \o type

\* the entities the timeline section appends
TimelineEntities(t) ==
    The({The({IF k = 0 THEN <<>>
              ELSE <<Entity("repayment_timeline",
                            TimelineValue(matches[k], timeline_types[k]), "high")>> :
              k \in {FirstPattern(matches)}}) :
         matches \in {[k \in 1..3 |-> SearchTimeline(k, t)]}})

-----------------------------------------------------------------------------
(* 6. bank relationship *)

relationship_keywords == <<
    [name |-> "yes", keywords |-> <<"existing customer", "current customer",
                                    "already have account", "have account", "yes",
                                    "i have account", "i have account in your bank">>],
    [name |-> "no", keywords |-> <<"no account", "new customer", "first time", "no relationship",
                                   "no", "i don't have account",
                                   "i don't have account in your bank">>] >>

\* the entities the bank-relationship section appends
BankEntities(t) ==
    The({IF k = 0 THEN <<>>
         ELSE <<Entity("bank_relationship", Capitalize(relationship_keywords[k].name), "medium")>> :
         k \in {MatchFirst(t, relationship_keywords)}})

-----------------------------------------------------------------------------
(* The transcripts extract_loan_entities is applied to *)

Phrases == {
    "Home Loan", "personal loan for education",
    "₹75,000", "₹5000", "50,000 rupees", "2.5 lakh",
    "self-employed", "working as", "not employed",
    "earning 50k", "salary of ₹40,000", "make 30,000 rs",
    "5 to 7 years", "18 months", "Yes" }

\* up to MaxPhrases phrases, joined by spaces
PhraseTexts ==
    {JoinWith(" ", ps) : ps \in UNION {[1..n -> Phrases] : n \in 0..MaxPhrases}}

\* a transcript that is an amount phrase and nothing else
KiloText(n) == IntStr(n) \o "k"
LakhText(n) == IntStr(n) \o " lakh"
CroreText(n) == IntStr(n) \o " crore"
SymbolText(v) == Rupee \o GroupThousands(v)
SymbolValues == UNION {{n, 1250 * n, 125000 * n} : n \in 1..MaxN}
\* the currency symbol and the digits of v, with no grouping commas
PlainSymbolText(v) == Rupee \o IntStr(v)
SymbolTexts ==
    {SymbolText(v) : v \in SymbolValues} \cup {PlainSymbolText(v) : v \in SymbolValues}
AmountTexts ==
    {KiloText(n) : n \in 1..MaxN} \cup {LakhText(n) : n \in 1..MaxN}
    \cup {CroreText(n) : n \in 1..MaxN} \cup {SymbolText(v) : v \in SymbolValues}

\* a transcript that is one trigger phrase of the bank relationship and nothing else
BankTexts ==
    UNION {{relationship_keywords[k].keywords[j] :
               j \in 1..Len(relationship_keywords[k].keywords)} :
           k \in 1..Len(relationship_keywords)}

EndToEndText == "I need a home loan of 10 lakh rupees for home purchase, I am self-employed earning 50k per month, for 5 years, and I have account in your bank"

Transcripts ==
    PhraseTexts \cup AmountTexts \cup SymbolTexts \cup BankTexts \cup {EndToEndText}

-----------------------------------------------------------------------------
(* extract_loan_entities, one action per section *)

ExtractInit ==
    /\ text \in Transcripts
    /\ text_lower = ""
    /\ entities = <<>>
    /\ pc = "start"

\* entities = [];  text_lower = text.lower()
Start ==
    /\ pc = "start"
    /\ entities' = <<>>
    /\ text_lower' = Lower(text)
    /\ pc' = "loan_type"
    /\ UNCHANGED <<text, submitVars, uploadVars>>

ExtractLoanType ==
    /\ pc = "loan_type"
    /\ entities' = entities \o LoanTypeEntities(text_lower)
    /\ pc' = "loan_purpose"
    /\ UNCHANGED <<text, text_lower, submitVars, uploadVars>>

ExtractLoanPurpose ==
    /\ pc = "loan_purpose"
    /\ entities' = entities \o LoanPurposeEntities(text_lower)
    /\ pc' = "loan_amount"
    /\ UNCHANGED <<text, text_lower, submitVars, uploadVars>>

\* float() raising ends the call: there is no handler inside the function
ExtractLoanAmount ==
    /\ pc = "loan_amount"
    /\ \E r \in {LoanAmountResult(text_lower)} :
          /\ entities' = entities \o r.out
          /\ pc' = IF r.raised THEN "raised" ELSE "employment_income"
    /\ UNCHANGED <<text, text_lower, submitVars, uploadVars>>

ExtractEmploymentIncome ==
    /\ pc = "employment_income"
    /\ \E r \in {EmploymentResult(text_lower)} :
          /\ entities' = entities \o r.out
          /\ pc' = IF r.raised THEN "raised" ELSE "repayment_timeline"
    /\ UNCHANGED <<text, text_lower, submitVars, uploadVars>>

ExtractTimeline ==
    /\ pc = "repayment_timeline"
    /\ entities' = entities \o TimelineEntities(text_lower)
    /\ pc' = "bank_relationship"
    /\ UNCHANGED <<text, text_lower, submitVars, uploadVars>>

\* the last section; return entities
ExtractBankRelationship ==
    /\ pc = "bank_relationship"
    /\ entities' = entities \o BankEntities(text_lower)
    /\ pc' = "done"
    /\ UNCHANGED <<text, text_lower, submitVars, uploadVars>>

-----------------------------------------------------------------------------
(* submit_application: requests served by concurrent threads *)

Submits == 1..MaxSubmits
\* a line of the file: the header, or the record of request req
HeaderRow == [kind |-> "header", req |-> 0]
DataRow(r) == [kind |-> "row", req |-> r]

\* the response of a request: status 0 until it is sent
NoResponse == [status |-> 0, success |-> FALSE, db_saved |-> FALSE]

SubmitInit ==
    /\ csv = [exists |-> FALSE, rows |-> <<>>]
    /\ db = <<>>
    /\ spc = [r \in Submits |-> "new"]
    /\ sresp = [r \in Submits |-> NoResponse]

\* request.get_json and the record built from it
SubmitReceive(r) ==
    /\ spc[r] = "new"
    /\ spc' = [spc EXCEPT ![r] = "ensure"]
    /\ UNCHANGED <<csv, db, sresp, extractVars, uploadVars>>

\* _ensure_csv_header: the test  not os.path.exists(csv_path)
SubmitEnsure(r) ==
    /\ spc[r] = "ensure"
    /\ spc' = [spc EXCEPT ![r] = IF csv.exists THEN "append" ELSE "create"]
    /\ UNCHANGED <<csv, db, sresp, extractVars, uploadVars>>

\* _ensure_csv_header: open(csv_path, mode='w') creates the file, or empties it
SubmitCreate(r) ==
    /\ spc[r] = "create"
    /\ csv' = [exists |-> TRUE, rows |-> <<>>]
    /\ spc' = [spc EXCEPT ![r] = "header"]
    /\ UNCHANGED <<db, sresp, extractVars, uploadVars>>

\* _ensure_csv_header: writer.writerow(headers) and the close that flushes it.  The
\* handle was opened with 'w': the header goes to offset 0, over the start of
\* whatever was appended since (a row the header overwrites is a row lost)
SubmitHeader(r) ==
    /\ spc[r] = "header"
    /\ csv' = [csv EXCEPT !.rows = <<HeaderRow>> \o (IF csv.rows = <<>> THEN <<>> ELSE Tail(csv.rows))]
    /\ spc' = [spc EXCEPT ![r] = "append"]
    /\ UNCHANGED <<db, sresp, extractVars, uploadVars>>

\* open(csv_path, mode='a'), writer.writerow(record), close
SubmitAppend(r) ==
    /\ spc[r] = "append"
    /\ csv' = [exists |-> TRUE, rows |-> Append(csv.rows, DataRow(r))]
    /\ spc' = [spc EXCEPT ![r] = "db"]
    /\ UNCHANGED <<db, sresp, extractVars, uploadVars>>

\* the append raising (the directory gone, the disk full): the handler answers 500
SubmitAppendFails(r) ==
    /\ spc[r] = "append"
    /\ spc' = [spc EXCEPT ![r] = "done"]
    /\ sresp' = [sresp EXCEPT ![r] = [status |-> 500, success |-> FALSE, db_saved |-> FALSE]]
    /\ UNCHANGED <<csv, db, extractVars, uploadVars>>

\* the insert into the database, which may fail (db_saved), and the 200 response
SubmitDb(r) ==
    /\ spc[r] = "db"
    /\ \E saved \in BOOLEAN :
          /\ db' = IF saved THEN Append(db, r) ELSE db
          /\ sresp' = [sresp EXCEPT ![r] = [status |-> 200, success |-> TRUE, db_saved |-> saved]]
    /\ spc' = [spc EXCEPT ![r] = "done"]
    /\ UNCHANGED <<csv, extractVars, uploadVars>>

-----------------------------------------------------------------------------
(* upload_audio: requests served by concurrent threads *)

Uploads == 1..MaxUploads

\* datetime.now().strftime('%Y%m%d_%H%M%S'): the clock to the second
Timestamp(c) == IntStr(c)

\* f'recording_{timestamp}.wav'
FileName(c) == "recording_" \o Timestamp(c) \o ".wav"

FileNames == {FileName(c) : c \in 0..MaxClock}

UploadInit ==
    /\ clock = 0
    /\ files = [f \in FileNames |-> 0]
    /\ upc = [r \in Uploads |-> "new"]
    /\ ufile = [r \in Uploads |-> ""]
    /\ uresp = [r \in Uploads |-> [status |-> 0, filename |-> "", audio |-> 0]]

\* a second passes
Tick ==
    /\ clock < MaxClock
    /\ clock' = clock + 1
    /\ UNCHANGED <<files, upc, ufile, uresp, extractVars, submitVars>>

\* the two checks of the request: no 'audio' part, or an empty filename, answers 400
UploadReceive(r) ==
    /\ upc[r] = "new"
    /\ \E part \in {"missing", "empty", "audio"} :
          IF part = "audio"
          THEN /\ upc' = [upc EXCEPT ![r] = "name"]
               /\ uresp' = uresp
          ELSE /\ upc' = [upc EXCEPT ![r] = "done"]
               /\ uresp' = [uresp EXCEPT ![r] = [status |-> 400, filename |-> "",
                                                  audio |-> 0]]
    /\ UNCHANGED <<clock, files, ufile, extractVars, submitVars>>

\* timestamp = datetime.now()...; filename = f'recording_{timestamp}.wav'
UploadName(r) ==
    /\ upc[r] = "name"
    /\ ufile' = [ufile EXCEPT ![r] = FileName(clock)]
    /\ upc' = [upc EXCEPT ![r] = "save"]
    /\ UNCHANGED <<clock, files, uresp, extractVars, submitVars>>

\* audio_file.save(filepath): the file now holds this request's audio
UploadSave(r) ==
    /\ upc[r] = "save"
    /\ files' = [files EXCEPT ![ufile[r]] = r]
    /\ upc' = [upc EXCEPT ![r] = "process"]
    /\ UNCHANGED <<clock, ufile, uresp, extractVars, submitVars>>

\* os.path.getsize and transcribe_audio read the file at filepath as it is now: the
\* response is about the audio the file holds.  The entities of the response are
\* extract_loan_entities(transcription), which Spec models.  An exception answers 500
UploadProcess(r) ==
    /\ upc[r] = "process"
    /\ \E failed \in BOOLEAN :
          uresp' = [uresp EXCEPT ![r] =
              [status |-> IF failed THEN 500 ELSE 200,
               filename |-> IF failed THEN "" ELSE ufile[r],
               audio |-> IF failed THEN 0 ELSE files[ufile[r]]]]
    /\ upc' = [upc EXCEPT ![r] = "done"]
    /\ UNCHANGED <<clock, files, ufile, extractVars, submitVars>>

-----------------------------------------------------------------------------
(* The specifications *)

ExtractIdle ==
    /\ text = ""
    /\ text_lower = ""
    /\ entities = <<>>
    /\ pc = "idle"

\* one call of extract_loan_entities on any of the transcripts
Init == ExtractInit /\ SubmitInit /\ UploadInit

Next ==
    \/ Start
    \/ ExtractLoanType
    \/ ExtractLoanPurpose
    \/ ExtractLoanAmount
    \/ ExtractEmploymentIncome
    \/ ExtractTimeline
    \/ ExtractBankRelationship

Spec == Init /\ [][Next]_vars

\* concurrent submit_application requests
SubmitSpecInit == ExtractIdle /\ SubmitInit /\ UploadInit

SubmitNext ==
    \E r \in Submits :
        \/ SubmitReceive(r)
        \/ SubmitEnsure(r)
        \/ SubmitCreate(r)
        \/ SubmitHeader(r)
        \/ SubmitAppend(r)
        \/ SubmitAppendFails(r)
        \/ SubmitDb(r)

SubmitSpec == SubmitSpecInit /\ [][SubmitNext]_vars

\* concurrent upload_audio requests and the clock
UploadSpecInit == ExtractIdle /\ SubmitInit /\ UploadInit

UploadNext ==
    \/ Tick
    \/ \E r \in Uploads :
          \/ UploadReceive(r)
          \/ UploadName(r)
          \/ UploadSave(r)
          \/ UploadProcess(r)

UploadSpec == UploadSpecInit /\ [][UploadNext]_vars

-----------------------------------------------------------------------------
(* The claims *)

\* the values of the entities of field f
FieldValues(es, f) == {es[k].value : k \in {k \in 1..Len(es) : es[k].field = f}}

\* the number of entities of field f
FieldCount(es, f) == Cardinality({k \in 1..Len(es) : es[k].field = f})

\* the employment_income entity reports the status s: alone, or before the income
ReportsStatus(es, s) ==
    \E v \in FieldValues(es, "employment_income") : v = s \/ At(v, 1, s \o " | ")

AfterEmployment == pc \in {"repayment_timeline", "bank_relationship", "done"}

\* C1: whenever the transcript contains a year range "N to M years", the
\* repayment_timeline entity returned is "N-M years", not a single-number value.
C1_RangeBeforePlainYears ==
    (pc = "done" /\ SearchTimeline(3, text_lower).ok)
        => FieldValues(entities, "repayment_timeline") = {RangeValue(SearchTimeline(3, text_lower))}

\* C2: the end-to-end transcript returns exactly the six entities of the scenario,
\* in order, the loan amount being the 10 lakh rupees.
C2_EndToEnd ==
    (pc = "done" /\ text = EndToEndText)
        => entities = << Entity("loan_type", "Home Loan", "high"),
                         Entity("loan_purpose", "Home Purchase", "high"),
                         Entity("loan_amount", "₹1,000,000", "high"),
                         Entity("employment_income", "Self-Employed | ₹50,000", "medium"),
                         Entity("repayment_timeline", "5 years", "high"),
                         Entity("bank_relationship", "Yes", "medium") >>

\* C3: at every point of the extraction the list holds at most one entity per field
\* kind, no entity of any other field, and so at most six entities.
C3_OneEntityPerField ==
    /\ \A k \in 1..Len(entities) : entities[k].field \in FieldKinds
    /\ \A f \in FieldKinds : FieldCount(entities, f) <= 1
    /\ Len(entities) <= 6

C3_Witness == pc = "done" /\ Len(entities) = 6

\* C4: the extraction never raises: a numeral captured by an amount or income
\* pattern is converted, and the call returns with the entity it yields.
C4_NeverRaises ==
    /\ pc # "raised"
    /\ pc = "done" =>
          /\ (\E k \in 1..5 : SearchAmount(k, text_lower).ok)
                => FieldCount(entities, "loan_amount") = 1
          /\ (\E k \in 1..5 : SearchIncome(k, text_lower).ok)
                => FieldCount(entities, "employment_income") = 1

C4_Witness ==
    /\ pc = "done"
    /\ Contains(SearchAmount(1, text_lower).g1, ",")
    /\ Contains(SearchIncome(2, text_lower).g1, ",")
    /\ FieldCount(entities, "loan_amount") = 1

C6_EmploymentPrecedence ==
    AfterEmployment =>
        /\ AnyKeyword(text_lower, self_employed_keywords)
              => ReportsStatus(entities, "Self-Employed")
        /\ (AnyKeyword(text_lower, unemployed_keywords)
            /\ ~AnyKeyword(text_lower, self_employed_keywords))
              => /\ ReportsStatus(entities, "Unemployed")
                 /\ ~ReportsStatus(entities, "Employed")

C6_Witness ==
    /\ pc = "done"
    /\ Contains(text_lower, "self-employed")
    /\ Contains(text_lower, "working as")
    /\ ReportsStatus(entities, "Self-Employed")

\* C7: when every submit_application request has been answered, each request answered
\* with success has exactly one row in applications.csv, and the header row is there
\* once, as the first row.
C7_OneRowPerSubmission ==
    (\A r \in Submits : spc[r] = "done") =>
        /\ \A r \in Submits :
              sresp[r].success
                  => Cardinality({k \in 1..Len(csv.rows) : csv.rows[k] = DataRow(r)}) = 1
        /\ csv.rows # <<>> =>
              /\ csv.rows[1] = HeaderRow
              /\ Cardinality({k \in 1..Len(csv.rows) : csv.rows[k] = HeaderRow}) = 1

\* C8: after the employment section there is an employment_income entity exactly when
\* the status or the income was detected, and only one; its value is the status, the
\* income, or the status, " | " and the income; its confidence is "medium".
C8_EmploymentIncomeEntity ==
    /\ ~AfterEmployment => FieldCount(entities, "employment_income") = 0
    /\ AfterEmployment =>
          \A status \in {EmploymentStatus(text_lower)}, income \in {IncomeResult(text_lower).info} :
              /\ FieldCount(entities, "employment_income")
                    = IF status # None \/ income # None THEN 1 ELSE 0
              /\ \A k \in 1..Len(entities) :
                    entities[k].field = "employment_income" =>
                        /\ entities[k].confidence = "medium"
                        /\ entities[k].value =
                              IF status # None /\ income # None THEN status \o " | " \o income
                              ELSE IF status # None THEN status ELSE income

C8_Witness ==
    /\ pc = "done"
    /\ EmploymentStatus(text_lower) = "Self-Employed"
    /\ IncomeResult(text_lower).info = "₹50,000"
    /\ FieldValues(entities, "employment_income") = {"Self-Employed | ₹50,000"}

\* C9: two upload_audio requests that have saved their audio have different
\* filenames, and a response's filename names the file holding that request's audio.
C9_UniqueFilenames ==
    /\ \A r1, r2 \in Uploads :
          (r1 # r2 /\ upc[r1] \in {"process", "done"} /\ upc[r2] \in {"process", "done"}
           /\ ufile[r1] # "" /\ ufile[r2] # "")
              => ufile[r1] # ufile[r2]
    /\ \A r \in Uploads : uresp[r].status = 200 => uresp[r].audio = r

\* C10: a transcript that is exactly one trigger phrase of the "no" keyword set
\* yields bank_relationship = "No".
C10_NoPhrasesYieldNo ==
    pc = "done" =>
        \A j \in 1..Len(relationship_keywords[2].keywords) :
            text = relationship_keywords[2].keywords[j]
                => FieldValues(entities, "bank_relationship") = {"No"}

\* C11: a transcript that is the currency symbol and a digit string, with or without
\* grouping commas, yields the loan amount of the whole digit string: no digit of the
\* number is dropped.
C11_SymbolDigitsKept ==
    (pc = "done" /\ text \in SymbolTexts) =>
        \A v \in SymbolValues :
            text \in {SymbolText(v), PlainSymbolText(v)}
                => FieldValues(entities, "loan_amount") = {Rupee \o GroupThousands(v)}

====
